---------------------------- MODULE Spec2Model ----------------------------
(***************************************************************************)
(* Hierarchical aggregation of temporal data (gears, examples/             *)
(* dask-hierarchical-aggregation.ipynb): init_agg (raw -> lossless),       *)
(* coarsen_agg (lossless -> lossless) and finalize_agg (lossless -> final) *)
(* over label-indexed tables.                                              *)
(*                                                                         *)
(* Numbers are exact extended rationals n/d (d = 0: n = 0 is NaN, n = +-1  *)
(* is +-infinity), so the arithmetic of the code is modelled without       *)
(* rounding.  A value with e = 2 is the non-negative square root of n/d.   *)
(* A string is a sequence of tokens, a token being "." or a run of other   *)
(* characters: 'x.count' is <<"x", ".", "count">> and '' is <<>>.          *)
(***************************************************************************)
EXTENDS Integers, Sequences, FiniteSets, TLC

(***************************************************************************)
(* Bounds of the model.                                                    *)
(***************************************************************************)
\* Largest number of raw measurement rows in a generated raw table.
MaxRows == 3
\* Largest number of raw rows in the runs that try misconfigured calls.
MaxRowsShape == 2
\* Largest number of variables in a column-naming call.
MaxVars == 2

(***************************************************************************)
(* Exact arithmetic on float64 values (NaN and infinities included).       *)
(***************************************************************************)
Abs(i) == IF i < 0 THEN -i ELSE i

Sign(i) == IF i < 0 THEN -1 ELSE IF i > 0 THEN 1 ELSE 0

RECURSIVE Gcd(_, _)
Gcd(a, b) == IF b = 0 THEN a ELSE Gcd(b, a % b)

\* The value n/d in lowest terms, d >= 0.
Norm(n, d) ==
    IF d = 0 THEN [n |-> Sign(n), d |-> 0, e |-> 1]
    ELSE LET s == IF d < 0 THEN -1 ELSE 1
             g == Gcd(Abs(n), Abs(d))
         IN  [n |-> (s * n) \div g, d |-> (s * d) \div g, e |-> 1]

\* The float of an integer.
ToFloat(i) == [n |-> i, d |-> 1, e |-> 1]

NaN == [n |-> 0, d |-> 0, e |-> 1]

\* A raw cell holds one reading, <<v>>, or none.
Missing == <<>>

\* astype('float') of a raw cell: a missing reading becomes NaN.
AsType(c) == IF c = Missing THEN NaN ELSE ToFloat(c[1])

IsNaN(a) == a.d = 0 /\ a.n = 0

IsFinite(a) == a.d > 0

Neg(a) == [n |-> -a.n, d |-> a.d, e |-> 1]

Add(a, b) ==
    IF a.d = 0 /\ b.d = 0
    THEN (IF a.n = b.n THEN a ELSE NaN)
    ELSE Norm(a.n * b.d + b.n * a.d, a.d * b.d)

Sub(a, b) == Add(a, Neg(b))

Mul(a, b) == Norm(a.n * b.n, a.d * b.d)

Recip(b) == IF b.n < 0 THEN Norm(-b.d, -b.n) ELSE Norm(b.d, b.n)

\* Float division: x/0 is +-inf, 0/0 is NaN, nothing is raised.
Div(a, b) == Mul(a, Recip(b))

Sq(a) == Mul(a, a)

\* a < b on non-NaN values.
Less(a, b) ==
    IF a.d = 0 \/ b.d = 0
    THEN (IF a.d = 0 /\ b.d = 0 THEN a.n < b.n
          ELSE IF a.d = 0 THEN a.n < 0 ELSE b.n > 0)
    ELSE a.n * b.d < b.n * a.d

IsSquare(i) == \E k \in 0..i : k * k = i

IRoot(i) == CHOOSE k \in 0..i : k * k = i

\* x ** .5 : NaN for NaN and for negative x, exact where n/d is a square,
\* otherwise kept as the root of n/d.
Sqrt(a) ==
    IF IsNaN(a) \/ a.n < 0 THEN NaN
    ELSE IF a.d = 0 THEN a
    ELSE IF IsSquare(a.n) /\ IsSquare(a.d)
         THEN [n |-> IRoot(a.n), d |-> IRoot(a.d), e |-> 1]
    ELSE [n |-> a.n, d |-> a.d, e |-> 2]

(***************************************************************************)
(* Sequences.                                                              *)
(***************************************************************************)
Range(s) == {s[i] : i \in DOMAIN s}

\* The sequence s with its elements computed.
SeqOf(s) == s \o <<>>

Contains(s, x) == \E i \in DOMAIN s : s[i] = x

\* Position of the first occurrence of x in s.
IndexOf(s, x) == CHOOSE i \in DOMAIN s : s[i] = x /\ \A j \in 1..(i - 1) : s[j] # x

RECURSIVE Flatten(_)
Flatten(ss) == IF ss = <<>> THEN <<>> ELSE Head(ss) \o Flatten(Tail(ss))

\* pd.unique: the distinct elements in order of first appearance.
RECURSIVE Unique(_)
Unique(s) ==
    IF s = <<>> THEN <<>>
    ELSE LET r == Unique(SubSeq(s, 1, Len(s) - 1))
             x == s[Len(s)]
         IN  IF Contains(r, x) THEN r ELSE Append(r, x)


(***************************************************************************)
(* Strings and column names.                                               *)
(***************************************************************************)
Dot == "."

\* A '.'-free string literal.
Str(s) == <<s>>

\* The name of an unnamed index (Python's None).
NoneName == <<"<None>">>

\* str.split('.')
RECURSIVE Split(_)
Split(s) ==
    IF ~Contains(s, Dot) THEN <<s>>
    ELSE LET i == IndexOf(s, Dot)
         IN  <<SubSeq(s, 1, i - 1)>> \o Split(SubSeq(s, i + 1, Len(s)))

\* '.'.join(parts)
RECURSIVE Join(_)
Join(parts) ==
    IF parts = <<>> THEN <<>>
    ELSE IF Len(parts) = 1 THEN parts[1]
    ELSE parts[1] \o <<Dot>> \o Join(Tail(parts))

\* f'{x}.{agg_type}' for each variable x.
get_cols(variables, agg_type) ==
    SeqOf([i \in DOMAIN variables |-> variables[i] \o <<Dot>> \o agg_type])

(***************************************************************************)
(* Tables.  A table has index level names, column names and rows; a row    *)
(* has its index cells and its column cells.  A call that raises returns   *)
(* a value whose err names the exception and that holds no table.          *)
(***************************************************************************)
Table(index, columns, rows) ==
    [err |-> "", index |-> index, columns |-> columns, rows |-> rows]

Error(e) == [err |-> e, index |-> <<>>, columns |-> <<>>, rows |-> <<>>]

\* No table assigned yet.
NoTable == Error("unset")

IsTable(df) == df.err = ""

HasCols(df, names) == \A i \in DOMAIN names : Contains(df.columns, names[i])

ColPos(df, name) == IndexOf(df.columns, name)

\* Variant: everything before the first '.'.
get_vars_from_flat_cols_FirstPart(df, not_vars) ==
    LET kept == SelectSeq(df.columns, LAMBDA col : ~Contains(not_vars, col))
    IN  Unique([i \in DOMAIN kept |-> Split(kept[i])[1]])

\* df.columns with the names in not_vars filtered out, one variable name
\* per remaining column: everything before the last '.'.
get_vars_from_flat_cols(df, not_vars) ==
    LET kept == SelectSeq(df.columns, LAMBDA col : ~Contains(not_vars, col))
    IN  Unique([i \in DOMAIN kept |->
                  LET parts == Split(kept[i])
                  IN  Join(SubSeq(parts, 1, Len(parts) - 1))])

\* The name reset_index gives index level i.
LevelName(df, i) ==
    IF df.index[i] # NoneName THEN df.index[i]
    ELSE IF Len(df.index) > 1 THEN Str("level_" \o ToString(i - 1))
    ELSE IF Contains(df.columns, Str("index")) THEN Str("level_0")
    ELSE Str("index")

\* df.reset_index(): the index levels become the first columns and the
\* rows get a fresh 0..n-1 index.
reset_index(df) ==
    LET names == [i \in DOMAIN df.index |-> LevelName(df, i)]
    IN  IF \E i \in DOMAIN names : Contains(df.columns, names[i])
        THEN Error("ValueError")
        ELSE Table(<<NoneName>>, names \o df.columns,
                   SeqOf([i \in DOMAIN df.rows |->
                            [idx |-> <<i - 1>>,
                             val |-> df.rows[i].idx \o df.rows[i].val]]))

\* The positions of the named columns.
Positions(df, names) == SeqOf([j \in DOMAIN names |-> ColPos(df, names[j])])

\* The cells of rows at the positions pos: a frame, addressed [row][column].
CellsAt(rows, pos) ==
    SeqOf([i \in DOMAIN rows |-> SeqOf([j \in DOMAIN pos |-> rows[i].val[pos[j]]])])

\* rename(df[names]): the cells of the named columns, addressed by position.
rename(df, names) == CellsAt(df.rows, Positions(df, names))

\* Element-wise binary operation of two frames of the same shape.
Elementwise(Op(_, _), A, B) ==
    SeqOf([i \in DOMAIN A |-> SeqOf([j \in DOMAIN A[i] |-> Op(A[i][j], B[i][j])])])

\* Element-wise unary operation.
Map(Op(_), A) ==
    SeqOf([i \in DOMAIN A |-> SeqOf([j \in DOMAIN A[i] |-> Op(A[i][j])])])

AssignAt(rows, ncols, pos, frame) ==
    SeqOf([i \in DOMAIN rows |->
             [rows[i] EXCEPT !.val =
                SeqOf([p \in 1..ncols |->
                         IF Contains(pos, p) THEN frame[i][IndexOf(pos, p)]
                         ELSE rows[i].val[p]])]])

\* df[names] = frame : the named (existing) columns are overwritten.
SetCols(df, names, frame) ==
    [df EXCEPT !.rows = AssignAt(df.rows, Len(df.columns), Positions(df, names), frame)]

(***************************************************************************)
(* groupby.                                                                *)
(***************************************************************************)
\* dt.floor(time_res)
Floor(t, time_res) == t - (t % time_res)

\* The values a grouping column takes in the model, in sort order.
HostNames == <<"A", "B">>

StrLess(a, b) == IndexOf(HostNames, a) < IndexOf(HostNames, b)

\* Order of group keys (grouping_cols + [time_col]): the grouping cells
\* are strings, the last cell is a time.
RECURSIVE KeyLess(_, _)
KeyLess(a, b) ==
    IF Len(a) = 1 THEN a[1] < b[1]
    ELSE IF a[1] # b[1] THEN StrLess(a[1], b[1])
    ELSE KeyLess(Tail(a), Tail(b))

RECURSIVE SortKeys(_)
SortKeys(S) ==
    IF S = {} THEN <<>>
    ELSE LET m == CHOOSE k \in S : \A o \in S \ {k} : KeyLess(k, o)
         IN  <<m>> \o SortKeys(S \ {m})

KeyOf(row, kpos) == SeqOf([j \in DOMAIN kpos |-> row.val[kpos[j]]])

\* The distinct group keys of the rows, sorted.
GroupKeys(rows, kpos) == SortKeys({KeyOf(rows[i], kpos) : i \in DOMAIN rows})

\* The rows of one group, in table order.
GroupRows(rows, kpos, k) == SelectSeq(rows, LAMBDA r : KeyOf(r, kpos) = k)

\* The cells of the column at position p over a sequence of rows.
Column(rows, p) == SeqOf([i \in DOMAIN rows |-> rows[i].val[p]])

(***************************************************************************)
(* Aggregation functions of a group's values (missing values skipped).     *)
(***************************************************************************)
NotNull(vs) == SelectSeq(vs, LAMBDA v : ~IsNaN(v))

RECURSIVE SumSeq(_)
SumSeq(vs) == IF vs = <<>> THEN ToFloat(0) ELSE Add(Head(vs), SumSeq(Tail(vs)))

RECURSIVE MinSeq(_)
MinSeq(vs) ==
    IF Len(vs) = 1 THEN vs[1]
    ELSE IF Less(vs[2], vs[1]) THEN MinSeq(Tail(vs))
    ELSE MinSeq(<<vs[1]>> \o Tail(Tail(vs)))

RECURSIVE MaxSeq(_)
MaxSeq(vs) ==
    IF Len(vs) = 1 THEN vs[1]
    ELSE IF Less(vs[1], vs[2]) THEN MaxSeq(Tail(vs))
    ELSE MaxSeq(<<vs[1]>> \o Tail(Tail(vs)))

SumSqDev(xs, mean) == SumSeq(SeqOf([i \in DOMAIN xs |-> Sq(Sub(xs[i], mean))]))

\* Sample variance (ddof = 1) of non-missing values: NaN for fewer than two.
VarOf(xs) ==
    IF Len(xs) < 2 THEN NaN
    ELSE Div(SumSqDev(xs, Div(SumSeq(xs), ToFloat(Len(xs)))), ToFloat(Len(xs) - 1))

AggOf(f, xs) ==
    CASE f = "count" -> ToFloat(Len(xs))
      [] f = "sum" -> SumSeq(xs)
      [] f = "var" -> VarOf(xs)
      [] f = "min" -> (IF xs = <<>> THEN NaN ELSE MinSeq(xs))
      [] f = "max" -> (IF xs = <<>> THEN NaN ELSE MaxSeq(xs))

\* The aggregation function named f over a group's cells.
Agg(f, vs) == AggOf(f, NotNull(vs))

\* One output row of groupby.agg: funcs[c] over the cells at spos[c].
AggRow(rows, spos, funcs) ==
    SeqOf([c \in DOMAIN spos |-> Agg(funcs[c], Column(rows, spos[c]))])

GroupByAggAt(rows, kpos, gk, spos, funcs) ==
    SeqOf([g \in DOMAIN gk |->
             [idx |-> gk[g],
              val |-> AggRow(GroupRows(rows, kpos, gk[g]), spos, funcs)]])

GroupByAggWith(df, keys, kpos, srcs, funcs, names) ==
    Table(keys, names,
          GroupByAggAt(df.rows, kpos, GroupKeys(df.rows, kpos),
                       Positions(df, srcs), funcs))

\* df.groupby(keys).agg(...): one row per group, indexed by the group key
\* and sorted by it; output column c is funcs[c] over the cells of srcs[c].
GroupByAgg(df, keys, srcs, funcs, names) ==
    GroupByAggWith(df, keys, Positions(df, keys), srcs, funcs, names)

TransformSumAt(rows, kpos, pos) ==
    SeqOf([i \in DOMAIN rows |->
             AggRow(GroupRows(rows, kpos, KeyOf(rows[i], kpos)), pos,
                    [j \in DOMAIN pos |-> "sum"])])

\* df.groupby(keys)[names].transform('sum'): the group's sums, broadcast to
\* the rows of the group.
GroupTransformSum(df, keys, names) ==
    TransformSumAt(df.rows, Positions(df, keys), Positions(df, names))

(***************************************************************************)
(* The three stages.                                                       *)
(***************************************************************************)
\* chain.from_iterable(zip(l1, l2, ...)) of lists of equal length.
ChainZip(lists) ==
    IF lists = <<>> THEN <<>>
    ELSE Flatten([i \in DOMAIN lists[1] |-> SeqOf([k \in DOMAIN lists |-> lists[k][i]])])

\* [f] * n
Repeat(fs, n) == Flatten([i \in 1..n |-> fs])

\* Variant: missing values are kept.
FillNa0_Keep(a) == a

\* fillna(0)
FillNa0(a) == IF IsNaN(a) THEN ToFloat(0) ELSE a

MinusOne(a) == Sub(a, ToFloat(1))

\* init_agg: the time column of the given resolution replaces the index.
WithTimeColumn(df_raw, time_col, time_res) ==
    Table(<<NoneName>>, Append(df_raw.columns, time_col),
          SeqOf([i \in DOMAIN df_raw.rows |->
                   [idx |-> <<i - 1>>,
                    val |-> Append(df_raw.rows[i].val,
                                   Floor(df_raw.rows[i].idx[1], time_res))]]))

\* init_agg: df_raw[variables] = df_raw[variables].astype('float')
AsFloat(df, variables) == SetCols(df, variables, Map(AsType, rename(df, variables)))

\* init_agg: groupby(...).agg(['count', 'sum', 'var', 'max', 'min']) with the
\* column names flattened.
InitAggregates(df, variables, keys) ==
    GroupByAgg(df, keys,
               ChainZip(<<variables, variables, variables, variables, variables>>),
               Repeat(<<"count", "sum", "var", "max", "min">>, Len(variables)),
               ChainZip(<<get_cols(variables, Str("count")),
                          get_cols(variables, Str("sum")),
                          get_cols(variables, Str("sum_sq_diff")),
                          get_cols(variables, Str("max")),
                          get_cols(variables, Str("min"))>>))

\* Variant: the variance times the count.
SumSqDiff_TimesCount(variance, count) == Mul(FillNa0(variance), count)

\* sum_sq_diffs.fillna(0) * (counts - 1), for one cell.
SumSqDiff(variance, count) == Mul(FillNa0(variance), MinusOne(count))

\* init_agg: change variance to the sum of squared differences from mean.
ToSumSqDiff(df_agg, variables) ==
    SetCols(df_agg, get_cols(variables, Str("sum_sq_diff")),
            Elementwise(SumSqDiff,
                        rename(df_agg, get_cols(variables, Str("sum_sq_diff"))),
                        rename(df_agg, get_cols(variables, Str("count")))))

InitAggOf(df_raw, time_res, grouping_cols, variables, time_col) ==
    IF time_col = NoneName THEN Error("TypeError")
    ELSE IF ~HasCols(df_raw, grouping_cols) THEN Error("KeyError")
    ELSE ToSumSqDiff(
             InitAggregates(AsFloat(WithTimeColumn(df_raw, time_col, time_res), variables),
                            variables, grouping_cols \o <<time_col>>),
             variables)

\* "Losslessly" aggregate raw data to the given time resolution.
init_agg(df_raw, time_res, grouping_cols) ==
    InitAggOf(df_raw, time_res, grouping_cols,
              SelectSeq(df_raw.columns, LAMBDA col : ~Contains(grouping_cols, col)),
              IF Len(df_raw.index) = 1 THEN df_raw.index[1] ELSE NoneName)

\* Variant: the table is taken as it is.
Promoted_AsIs(df_agg, keys) == df_agg

\* coarsen_agg, finalize_agg: time_col and grouping_cols are looked for in
\* the columns; if one is missing the index is reset.
Promoted(df_agg, keys) == IF ~HasCols(df_agg, keys) THEN reset_index(df_agg) ELSE df_agg

\* Variant: the time column keeps the buckets of the finer resolution.
Refloored_Keep(df, time_col, time_res) == df

\* coarsen_agg: the time column floored to the new resolution.
Refloored(df, time_col, time_res) ==
    SetCols(df, <<time_col>>,
            Map(LAMBDA t : Floor(t, time_res), rename(df, <<time_col>>)))

\* coarsen_agg: the coarsened mean broadcast to the original shape.
CoarseMeans(df, keys, variables) ==
    Elementwise(Div,
                GroupTransformSum(df, keys, get_cols(variables, Str("sum"))),
                GroupTransformSum(df, keys, get_cols(variables, Str("count"))))

\* Variants of the correction term: weighted by count - 1, left out, and
\* not weighted at all.
Correction_Bessel(count, sum, coarse_mean) ==
    Mul(MinusOne(count), Sq(Sub(Div(sum, count), coarse_mean)))

Correction_None(count, sum, coarse_mean) == ToFloat(0)

Correction_Unweighted(count, sum, coarse_mean) ==
    Sq(Sub(Div(sum, count), coarse_mean))

\* counts * (sums / counts - coarse_means)**2, for one cell.
Correction(count, sum, coarse_mean) ==
    Mul(count, Sq(Sub(Div(sum, count), coarse_mean)))

CorrectedCells(sum_sq_diffs, counts, sums, coarse_means) ==
    SeqOf([i \in DOMAIN sum_sq_diffs |->
             SeqOf([j \in DOMAIN sum_sq_diffs[i] |->
                      Add(sum_sq_diffs[i][j],
                          Correction(counts[i][j], sums[i][j], coarse_means[i][j]))])])

\* coarsen_agg: the sum of squared differences from the coarsened mean.
Corrected(df, keys, variables) ==
    SetCols(df, get_cols(variables, Str("sum_sq_diff")),
            CorrectedCells(rename(df, get_cols(variables, Str("sum_sq_diff"))),
                           rename(df, get_cols(variables, Str("count"))),
                           rename(df, get_cols(variables, Str("sum"))),
                           CoarseMeans(df, keys, variables)))

\* The columns coarsen_agg aggregates, variable by variable.
ColsToAgg(variables) ==
    ChainZip(<<get_cols(variables, Str("count")), get_cols(variables, Str("sum")),
               get_cols(variables, Str("sum_sq_diff")),
               get_cols(variables, Str("min")), get_cols(variables, Str("max"))>>)

\* Variant: the coarse count is the number of merged rows.
Coarsened_CountRows(df, keys, variables) ==
    GroupByAgg(df, keys, ColsToAgg(variables),
               Repeat(<<"count", "sum", "sum", "min", "max">>,
                      Len(get_cols(variables, <<>>))),
               ColsToAgg(variables))

\* coarsen_agg: groupby(...).agg(dict(zip(cols_to_agg, agg_functions)))
Coarsened(df, keys, variables) ==
    GroupByAgg(df, keys, ColsToAgg(variables),
               Repeat(<<"sum", "sum", "sum", "min", "max">>,
                      Len(get_cols(variables, <<>>))),
               ColsToAgg(variables))

CoarsenPromoted(df_coarse, variables, time_res, time_col, grouping_cols) ==
    IF ~IsTable(df_coarse) THEN df_coarse
    ELSE IF ~Contains(df_coarse.columns, time_col) THEN Error("KeyError")
    ELSE IF ~HasCols(df_coarse, ColsToAgg(variables)) THEN Error("KeyError")
    ELSE IF ~HasCols(df_coarse, grouping_cols) THEN Error("KeyError")
    ELSE Coarsened(Corrected(Refloored(df_coarse, time_col, time_res),
                             grouping_cols \o <<time_col>>, variables),
                   grouping_cols \o <<time_col>>, variables)

\* Coarsen the time resolution of "losslessly" aggregated data.
coarsen_agg(df_agg, time_res, time_col, grouping_cols) ==
    CoarsenPromoted(Promoted(df_agg, grouping_cols \o <<time_col>>),
                    get_vars_from_flat_cols(df_agg, grouping_cols \o <<time_col>>),
                    time_res, time_col, grouping_cols)

\* sums / counts, for one cell.
Mean(sum, count) == Div(sum, count)

\* Variant: the divisor is the count.
Std_Population(sum_sq_diff, count) == Sqrt(Div(sum_sq_diff, count))

\* (sum_sq_diffs / (counts - 1))**.5, for one cell.
Std(sum_sq_diff, count) == Sqrt(Div(sum_sq_diff, MinusOne(count)))

ConcatRows(rows, parts) ==
    SeqOf([i \in DOMAIN rows |->
             [idx |-> rows[i].idx,
              val |-> Flatten([p \in DOMAIN parts |-> parts[p][i]])]])

\* finalize_agg: dd.concat([df_agg[grouping_cols + [time_col]], means, stds,
\* df_agg[cols('min') + cols('max')]], axis=1)
Concat(df, keys, variables) ==
    Table(df.index,
          keys \o get_cols(variables, Str("mean")) \o get_cols(variables, Str("std"))
               \o get_cols(variables, Str("min")) \o get_cols(variables, Str("max")),
          ConcatRows(df.rows,
              <<rename(df, keys),
                Elementwise(Mean, rename(df, get_cols(variables, Str("sum"))),
                            rename(df, get_cols(variables, Str("count")))),
                Elementwise(Std, rename(df, get_cols(variables, Str("sum_sq_diff"))),
                            rename(df, get_cols(variables, Str("count")))),
                rename(df, get_cols(variables, Str("min"))
                           \o get_cols(variables, Str("max")))>>))

\* Variant: the columns in the order of the concatenation, by statistic.
FinalCols_ByStatistic(keys, variables) ==
    keys \o get_cols(variables, Str("mean")) \o get_cols(variables, Str("std"))
         \o get_cols(variables, Str("min")) \o get_cols(variables, Str("max"))

\* The columns of the final table: by variable, not by statistic.
FinalCols(keys, variables) ==
    keys \o ChainZip(<<get_cols(variables, Str("mean")), get_cols(variables, Str("std")),
                       get_cols(variables, Str("min")), get_cols(variables, Str("max"))>>)

WithCells(rows, cells) ==
    SeqOf([i \in DOMAIN rows |-> [idx |-> rows[i].idx, val |-> cells[i]]])

\* df[names]
SelectCols(df, names) == Table(df.index, names, WithCells(df.rows, rename(df, names)))

\* Variant: a table without the lossless columns is handed back.
FinalizePromoted_Lenient(df, keys, variables) ==
    IF ~IsTable(df) THEN df
    ELSE IF ~HasCols(df, get_cols(variables, Str("count"))
                         \o get_cols(variables, Str("sum"))
                         \o get_cols(variables, Str("sum_sq_diff")))
    THEN df
    ELSE IF ~HasCols(df, keys \o get_cols(variables, Str("min"))
                              \o get_cols(variables, Str("max")))
    THEN Error("KeyError")
    ELSE SelectCols(Concat(df, keys, variables), FinalCols(keys, variables))

FinalizePromoted(df, keys, variables) ==
    IF ~IsTable(df) THEN df
    ELSE IF ~HasCols(df, get_cols(variables, Str("count"))
                         \o get_cols(variables, Str("sum"))
                         \o get_cols(variables, Str("sum_sq_diff")))
    THEN Error("KeyError")
    ELSE IF ~HasCols(df, keys \o get_cols(variables, Str("min"))
                              \o get_cols(variables, Str("max")))
    THEN Error("KeyError")
    ELSE SelectCols(Concat(df, keys, variables), FinalCols(keys, variables))

FinalizeWith(df, keys) ==
    FinalizePromoted(df, keys, IF IsTable(df) THEN get_vars_from_flat_cols(df, keys)
                               ELSE <<>>)

\* Compute final aggregates from losslessly aggregated data.
finalize_agg(df_agg, time_col, grouping_cols) ==
    FinalizeWith(Promoted(df_agg, grouping_cols \o <<time_col>>),
                 grouping_cols \o <<time_col>>)

(***************************************************************************)
(* What a stage does to the table object its caller passed.  A stage       *)
(* writes columns in place (df[...] = ...); the caller sees the writes if  *)
(* the stage's local name still refers to the caller's object.             *)
(***************************************************************************)
Caller == "caller"

Fresh == "fresh"

\* Variant: the same object is handed back.
copy_Same(obj) == obj

\* df.assign(...) returns a new object.
assign(obj) == Fresh

\* copy(df) returns a new object.
copy(obj) == Fresh

\* init_agg: the local table after the in-place writes of lines 89-93.
init_agg_written(df_raw, time_res, grouping_cols) ==
    IF Len(df_raw.index) # 1 \/ df_raw.index[1] = NoneName
         \/ ~HasCols(df_raw, grouping_cols)
    THEN df_raw
    ELSE AsFloat(WithTimeColumn(df_raw, df_raw.index[1], time_res),
                 SelectSeq(df_raw.columns, LAMBDA col : ~Contains(grouping_cols, col)))

\* The caller's raw table after init_agg.
init_agg_caller(df_raw, time_res, grouping_cols) ==
    IF assign(Caller) = Caller
    THEN init_agg_written(df_raw, time_res, grouping_cols)
    ELSE df_raw

\* coarsen_agg: the object df_coarse names after lines 120-123.
CoarsenTarget(df_agg, keys) ==
    IF ~HasCols(df_agg, keys) THEN Fresh ELSE copy(Caller)

\* coarsen_agg: the local table after the in-place writes of lines 126
\* and 141 (the groupby of line 147 makes a new table).
coarsen_agg_written(df_agg, time_res, time_col, grouping_cols) ==
    IF ~HasCols(df_agg, grouping_cols \o <<time_col>>)
         \/ ~HasCols(df_agg, ColsToAgg(get_vars_from_flat_cols(
                                 df_agg, grouping_cols \o <<time_col>>)))
    THEN df_agg
    ELSE Corrected(Refloored(df_agg, time_col, time_res),
                   grouping_cols \o <<time_col>>,
                   get_vars_from_flat_cols(df_agg, grouping_cols \o <<time_col>>))

\* The caller's lossless table after coarsen_agg.
coarsen_agg_caller(df_agg, time_res, time_col, grouping_cols) ==
    IF CoarsenTarget(df_agg, grouping_cols \o <<time_col>>) = Caller
    THEN coarsen_agg_written(df_agg, time_res, time_col, grouping_cols)
    ELSE df_agg

\* The caller's lossless table after finalize_agg: line 161 rebinds the
\* local name and no later line writes to a table.
finalize_agg_caller(df_agg, time_col, grouping_cols) == df_agg

(***************************************************************************)
(* The inputs of the model: time-indexed raw tables with one grouping      *)
(* column and two variables, as in the example pipeline.                   *)
(***************************************************************************)
TimeCol == Str("timestamp")

GroupingCols == <<Str("hostname")>>

Variables == <<Str("x"), Str("y")>>

\* Timestamps of raw rows (seconds) and the resolutions '5s', '15s', '5min'.
Times == <<0, 5, 15>>

Resolutions == {5, 15, 300}

\* The (hostname, x, y) samples a raw row may carry; one lacks its y.
Samples == << <<"A", <<10>>, <<7>> >>, <<"A", <<20>>, Missing>>, <<"B", <<20>>, <<9>> >> >>

\* The possible raw rows, in a fixed order.
RawRow(k) ==
    [idx |-> <<Times[((k - 1) \div Len(Samples)) + 1]>>,
     val |-> Samples[((k - 1) % Len(Samples)) + 1]]

NumRawRows == Len(Times) * Len(Samples)

\* Raw tables of at most MaxRows rows.  Rows are listed in the fixed order:
\* the stages fold each group with +, min and max, so a permutation of the
\* rows gives the same tables.
RawTables ==
    {Table(<<TimeCol>>, GroupingCols \o Variables, [i \in DOMAIN s |-> RawRow(s[i])]) :
       s \in {q \in UNION {[1..n -> 1..NumRawRows] : n \in 0..MaxRows} :
                \A i \in 1..(Len(q) - 1) : q[i] <= q[i + 1]}}

\* The documented scenario: (00:00:00, A, 10), (00:00:05, A, 20),
\* (00:05:00, A, 30).
ScenarioRaw ==
    Table(<<TimeCol>>, GroupingCols \o Variables,
          << [idx |-> <<0>>, val |-> <<"A", <<10>>, <<7>> >>],
             [idx |-> <<5>>, val |-> <<"A", <<20>>, <<7>> >>],
             [idx |-> <<300>>, val |-> <<"A", <<30>>, <<7>> >>] >>)

\* Names a caller may pass for the time column and the grouping columns:
\* the right ones and ones no table has.
TimeColArgs == {TimeCol, Str("time")}

GroupingColsArgs == {GroupingCols, <<Str("host")>>}

\* df.reset_index().to_parquet(...) followed by read_parquet(index=False):
\* the table comes back with its index levels as columns.
Stored(df) == reset_index(df)

\* The rows at the positions in S, in order.
RECURSIVE RowsIn(_, _, _)
RowsIn(rows, S, i) ==
    IF i > Len(rows) THEN <<>>
    ELSE (IF i \in S THEN <<rows[i]>> ELSE <<>>) \o RowsIn(rows, S, i + 1)

\* The sub-table of df with the rows at the positions in S.
SubTable(df, S) == [df EXCEPT !.rows = RowsIn(df.rows, S, 1)]

\* Two tables of the same columns stacked: the rows of a, then those of b.
Stack(a, b) == Table(a.index, a.columns, a.rows \o b.rows)

(***************************************************************************)
(* State: the notebook's tables, the last call and the resolutions used.   *)
(***************************************************************************)
VARIABLES
    df_raw,      \* the raw table
    df_agg,      \* the lossless table made from df_raw
    df_coarse,   \* the latest coarsened lossless table
    df_final,    \* the final table
    call,        \* the last stage call: function, arguments, exception raised
    res,         \* the resolutions applied so far
    naming       \* the last column-naming call: arguments and result

vars == <<df_raw, df_agg, df_coarse, df_final, call, res, naming>>

\* No column-naming call yet.
NoNames == [variables |-> <<>>, agg_types |-> <<>>, not_vars |-> <<>>,
            by_variable |-> TRUE, columns |-> <<>>, step |-> "none", out |-> <<>>]

\* fn: the stage called; arg: the kind of table it was handed; err: the
\* exception it raised ("" if none).
Call(fn, arg, time_col, grouping_cols, out) ==
    [fn |-> fn, arg |-> arg, time_col |-> time_col,
     grouping_cols |-> grouping_cols, err |-> out.err]

NoCall == [fn |-> "none", arg |-> "none", time_col |-> <<>>,
           grouping_cols |-> <<>>, err |-> ""]

\* first: the resolution of init_agg; last: the resolution of the latest
\* table; prev: the resolution of the table the latest coarsen_agg read;
\* chained: the latest coarsen_agg read a table made by coarsen_agg;
\* multiples: every resolution was a multiple of the one before;
\* stacked: df_agg is two init_agg outputs stacked.
NoRes == [first |-> 0, prev |-> 0, last |-> 0, chained |-> FALSE,
          multiples |-> TRUE, stacked |-> FALSE]

\* The lossless table the next stage reads.
Lossless == IF IsTable(df_coarse) THEN df_coarse ELSE df_agg

\* The table handed to a stage: the one in memory or its stored version.
Input(df, from_disk) == IF from_disk THEN Stored(df) ELSE df

\* A run goes on until a call raises or the final table is made.
Running == call.err = "" /\ ~IsTable(df_final)

Init ==
    /\ df_raw \in RawTables \cup {ScenarioRaw}
    /\ df_agg = NoTable
    /\ df_coarse = NoTable
    /\ df_final = NoTable
    /\ call = NoCall
    /\ res = NoRes
    /\ naming = NoNames

\* df_agg = init_agg(df_raw, time_res, grouping_cols=['hostname'])
InitAgg(time_res) ==
    /\ Running
    /\ ~IsTable(df_agg)
    /\ \E out \in {init_agg(df_raw, time_res, GroupingCols)} :
           /\ df_agg' = out
           /\ call' = Call("init_agg", "raw", TimeCol, GroupingCols, out)
    /\ res' = [NoRes EXCEPT !.first = time_res, !.prev = time_res, !.last = time_res]
    /\ UNCHANGED <<df_raw, df_coarse, df_final, naming>>

\* The raw rows are split in two (the rows at the positions in S and the
\* others), init_agg is applied to each part and the two lossless tables
\* are stacked.
InitAggParts(time_res, S) ==
    /\ Running
    /\ ~IsTable(df_agg)
    /\ \E out \in {Stack(Stored(init_agg(SubTable(df_raw, S), time_res, GroupingCols)),
                         Stored(init_agg(SubTable(df_raw, DOMAIN df_raw.rows \ S),
                                         time_res, GroupingCols)))} :
           /\ df_agg' = out
           /\ call' = Call("init_agg", "raw", TimeCol, GroupingCols, out)
    /\ res' = [NoRes EXCEPT !.first = time_res, !.prev = time_res, !.last = time_res,
                            !.stacked = TRUE]
    /\ UNCHANGED <<df_raw, df_coarse, df_final, naming>>

\* df_coarse = coarsen_agg(<lossless>, time_res, time_col, grouping_cols)
CoarsenAgg(from_disk, time_res, time_col, grouping_cols) ==
    /\ Running
    /\ IsTable(Lossless)
    /\ \E out \in {coarsen_agg(Input(Lossless, from_disk), time_res,
                               time_col, grouping_cols)} :
           /\ call' = Call("coarsen_agg", "lossless", time_col, grouping_cols, out)
           /\ IF IsTable(out)
              THEN /\ df_coarse' = out
                   /\ res' = [res EXCEPT !.prev = res.last,
                                         !.last = time_res,
                                         !.chained = IsTable(df_coarse),
                                         !.multiples = @ /\ time_res % res.last = 0]
              ELSE UNCHANGED <<df_coarse, res>>
    /\ UNCHANGED <<df_raw, df_agg, df_final, naming>>

\* df_final = finalize_agg(<lossless>, time_col, grouping_cols)
FinalizeAgg(from_disk, time_col, grouping_cols) ==
    /\ Running
    /\ IsTable(Lossless)
    /\ \E out \in {finalize_agg(Input(Lossless, from_disk), time_col, grouping_cols)} :
           /\ call' = Call("finalize_agg", "lossless", time_col, grouping_cols, out)
           /\ IF IsTable(out) THEN df_final' = out ELSE UNCHANGED df_final
    /\ UNCHANGED <<df_raw, df_agg, df_coarse, res, naming>>

\* coarsen_agg is handed the final table.
CoarsenFinal(time_res) ==
    /\ call.err = ""
    /\ IsTable(df_final)
    /\ \E out \in {coarsen_agg(df_final, time_res, TimeCol, GroupingCols)} :
           /\ call' = Call("coarsen_agg", "final", TimeCol, GroupingCols, out)
           /\ IF IsTable(out)
              THEN df_coarse' = out /\ res' = [res EXCEPT !.last = time_res]
              ELSE UNCHANGED <<df_coarse, res>>
    /\ UNCHANGED <<df_raw, df_agg, df_final, naming>>

\* finalize_agg is handed the final table.
FinalizeFinal ==
    /\ call.err = ""
    /\ IsTable(df_final)
    /\ \E out \in {finalize_agg(df_final, TimeCol, GroupingCols)} :
           /\ call' = Call("finalize_agg", "final", TimeCol, GroupingCols, out)
           /\ IF IsTable(out) THEN df_final' = out ELSE UNCHANGED df_final
    /\ UNCHANGED <<df_raw, df_agg, df_coarse, res, naming>>

\* The resolutions the next coarsen_agg call may ask for: "at least as
\* coarse as the current one".
Coarser == {r \in Resolutions : r >= res.last}

\* The pipeline of the notebook, every call rightly configured.
Next ==
    \/ \E time_res \in Resolutions : InitAgg(time_res)
    \/ \E from_disk \in BOOLEAN, time_res \in Coarser :
         CoarsenAgg(from_disk, time_res, TimeCol, GroupingCols)
    \/ \E from_disk \in BOOLEAN : FinalizeAgg(from_disk, TimeCol, GroupingCols)

Spec == Init /\ [][Next]_vars

\* The pipeline with calls that name columns no table has and calls that
\* hand the final table to a stage, over smaller raw tables.
InitShape == Init /\ Len(df_raw.rows) <= MaxRowsShape

NextShape ==
    \/ \E time_res \in Resolutions : InitAgg(time_res)
    \/ \E from_disk \in BOOLEAN, time_res \in Coarser,
          time_col \in TimeColArgs, grouping_cols \in GroupingColsArgs :
         CoarsenAgg(from_disk, time_res, time_col, grouping_cols)
    \/ \E from_disk \in BOOLEAN, time_col \in TimeColArgs,
          grouping_cols \in GroupingColsArgs :
         FinalizeAgg(from_disk, time_col, grouping_cols)
    \/ \E time_res \in Resolutions : CoarsenFinal(time_res)
    \/ FinalizeFinal

SpecShape == InitShape /\ [][NextShape]_vars

\* The raw rows bucketized in two parts, the parts stacked and coarsened.
NextParts ==
    \/ \E time_res \in Resolutions, S \in SUBSET DOMAIN df_raw.rows :
         /\ (S = {} \/ 1 \in S)
         /\ InitAggParts(time_res, S)
    \/ \E time_res \in Coarser : CoarsenAgg(FALSE, time_res, TimeCol, GroupingCols)

SpecParts == Init /\ [][NextParts]_vars

(***************************************************************************)
(* Reading tables by name, and the statistics of the raw rows computed     *)
(* directly from their definitions.                                        *)
(***************************************************************************)
Keys == GroupingCols \o <<TimeCol>>

\* The cell of row i of df under the given name, column or index level.
Cell(df, i, name) ==
    IF Contains(df.columns, name) THEN df.rows[i].val[ColPos(df, name)]
    ELSE df.rows[i].idx[IndexOf(df.index, name)]

\* The (hostname, bucket start) of row i.
RowKey(df, i) == SeqOf([j \in DOMAIN Keys |-> Cell(df, i, Keys[j])])

\* Statistic stat of variable v in row i.
Stat(df, i, v, stat) == Cell(df, i, v \o <<Dot, stat>>)

LosslessStats == <<"count", "sum", "sum_sq_diff", "min", "max">>

FinalStats == <<"mean", "std", "min", "max">>

\* Row i as its key and, per variable, its statistics by name.
RowView(df, i, stats) ==
    <<RowKey(df, i),
      SeqOf([v \in DOMAIN Variables |->
               SeqOf([s \in DOMAIN stats |-> Stat(df, i, Variables[v], stats[s])])])>>

LosslessView(df) == {RowView(df, i, LosslessStats) : i \in DOMAIN df.rows}

\* Two lossless tables hold the same rows: same keys, none twice, and the
\* same count, sum, sum_sq_diff, min and max under every key.
SameRows(a, b) ==
    /\ IsTable(a) /\ IsTable(b)
    /\ Len(a.rows) = Len(b.rows)
    /\ LosslessView(a) = LosslessView(b)
    /\ Cardinality(LosslessView(a)) = Len(a.rows)

\* The raw rows whose key is k at resolution r.
RawKey(i, r) ==
    <<df_raw.rows[i].val[ColPos(df_raw, GroupingCols[1])],
      Floor(df_raw.rows[i].idx[1], r)>>

RawKeys(r) == {RawKey(i, r) : i \in DOMAIN df_raw.rows}

Members(k, r) == {i \in DOMAIN df_raw.rows : RawKey(i, r) = k}

RawCell(i, v) == df_raw.rows[i].val[ColPos(df_raw, v)]

\* The rows of the group that carry a reading of v, and the reading.
Present(k, r, v) == {i \in Members(k, r) : RawCell(i, v) # Missing}

RawVal(i, v) == RawCell(i, v)[1]

RECURSIVE RawSum(_, _)
RawSum(S, v) ==
    IF S = {} THEN 0
    ELSE LET i == CHOOSE j \in S : TRUE IN RawVal(i, v) + RawSum(S \ {i}, v)

\* n * n * (sum over S of (x - mean)^2), in integers: sum of (n*x - total)^2.
RECURSIVE RawSqDev(_, _, _, _)
RawSqDev(S, v, n, total) ==
    IF S = {} THEN 0
    ELSE LET i == CHOOSE j \in S : TRUE
         IN  (n * RawVal(i, v) - total) * (n * RawVal(i, v) - total)
             + RawSqDev(S \ {i}, v, n, total)

\* The number of readings of v in the group.
RawCount(k, r, v) == Cardinality(Present(k, r, v))

\* Their mean (undefined, NaN, if there is none).
RawMean(k, r, v) == Norm(RawSum(Present(k, r, v), v), RawCount(k, r, v))

\* Sum of squared deviations of the group's readings from their mean.
RawSsd(k, r, v) ==
    IF RawCount(k, r, v) = 0 THEN ToFloat(0)
    ELSE Norm(RawSqDev(Present(k, r, v), v, RawCount(k, r, v),
                       RawSum(Present(k, r, v), v)),
              RawCount(k, r, v) * RawCount(k, r, v))

RawMin(k, r, v) ==
    IF Present(k, r, v) = {} THEN NaN
    ELSE ToFloat(CHOOSE x \in {RawVal(i, v) : i \in Present(k, r, v)} :
                   \A i \in Present(k, r, v) : x <= RawVal(i, v))

RawMax(k, r, v) ==
    IF Present(k, r, v) = {} THEN NaN
    ELSE ToFloat(CHOOSE x \in {RawVal(i, v) : i \in Present(k, r, v)} :
                   \A i \in Present(k, r, v) : x >= RawVal(i, v))

\* What a lossless table of resolution r holds if it is computed from the
\* readings directly.
RawLosslessView(r) ==
    {<<k, SeqOf([v \in DOMAIN Variables |->
                   <<ToFloat(RawCount(k, r, Variables[v])),
                     ToFloat(RawSum(Present(k, r, Variables[v]), Variables[v])),
                     RawSsd(k, r, Variables[v]),
                     RawMin(k, r, Variables[v]),
                     RawMax(k, r, Variables[v])>>])>> : k \in RawKeys(r)}

X == Variables[1]

\* Some row of df has count n and a positive sum_sq_diff for variable x.
HasSpreadRow(df, n) ==
    \E i \in DOMAIN df.rows :
        /\ Stat(df, i, X, "count") = ToFloat(n)
        /\ Less(ToFloat(0), Stat(df, i, X, "sum_sq_diff"))

ScenarioRows ==
    {<<"A", 0, <<ToFloat(2), ToFloat(30), ToFloat(50), ToFloat(10), ToFloat(20)>>>>,
     <<"A", 300, <<ToFloat(1), ToFloat(30), ToFloat(0), ToFloat(30), ToFloat(30)>>>>}

ScenarioBucketized ==
    /\ call.fn = "init_agg"
    /\ df_raw = ScenarioRaw
    /\ res.first = 300
    /\ Len(df_agg.rows) = 2

(***************************************************************************)
(* C1: for r2 >= r1 with r2 a multiple of r1, coarsen_agg(init_agg(raw,    *)
(* r1), r2) has the same rows as init_agg(raw, r2): the same (key, bucket) *)
(* set and under each, per variable, the same count, sum, sum_sq_diff, min *)
(* and max.                                                                *)
(***************************************************************************)
C1_CoarsenMatchesInit ==
    (IsTable(df_coarse) /\ ~res.chained /\ ~res.stacked /\ res.multiples) =>
        SameRows(df_coarse, init_agg(df_raw, res.last, GroupingCols))

\* init_agg at r1, one coarsen_agg to a coarser r2, and buckets were merged
\* into one with three samples that differ.
C1_Witness ==
    /\ IsTable(df_coarse) /\ ~res.chained /\ ~res.stacked
    /\ res.first < res.last
    /\ res.last % res.first = 0
    /\ Len(df_coarse.rows) < Len(df_agg.rows)
    /\ HasSpreadRow(df_coarse, 3)

(***************************************************************************)
(* C3: for resolutions r0 <= r1 <= r2, each a multiple of the one before,  *)
(* coarsening a lossless table X of resolution r0 to r1 and the result to  *)
(* r2 gives the same rows as coarsening X to r2 directly.                  *)
(***************************************************************************)
C3_ChainedMatchesDirect ==
    (IsTable(df_coarse) /\ res.chained /\ ~res.stacked /\ res.multiples) =>
        SameRows(df_coarse, coarsen_agg(df_agg, res.last, TimeCol, GroupingCols))

\* X at r0, coarsened to r1 > r0 and then to r2 > r1, three samples merged.
C3_Witness ==
    /\ IsTable(df_coarse) /\ res.chained
    /\ res.first < res.prev /\ res.prev < res.last
    /\ Len(df_agg.rows) = 3
    /\ HasSpreadRow(df_coarse, 3)

(***************************************************************************)
(* C2: for a lossless table X with every count >= 1 and any resolution,    *)
(* each output row of coarsen_agg for (key, coarse bucket) merges exactly  *)
(* the rows of X with that key whose bucket start floors to that bucket,   *)
(* and per variable: count is the sum of their counts, sum the sum of      *)
(* their sums, min the least min, max the greatest max, and sum_sq_diff    *)
(* the sum over them of sum_sq_diff_i + count_i * (sum_i / count_i - S/N)^2*)
(* with S and N the merged sum and count; not the plain sum of the         *)
(* sum_sq_diff_i.                                                          *)
(***************************************************************************)
CountsPositive(df) ==
    \A i \in DOMAIN df.rows, v \in DOMAIN Variables :
        ~Less(Stat(df, i, Variables[v], "count"), ToFloat(1))

\* The rows of x merged under key k at resolution r, in table order.
MergedRows(x, k, r) ==
    SelectSeq(SeqOf([i \in DOMAIN x.rows |-> i]),
              LAMBDA i : /\ SubSeq(RowKey(x, i), 1, Len(GroupingCols))
                              = SubSeq(k, 1, Len(GroupingCols))
                         /\ Floor(Cell(x, i, TimeCol), r) = k[Len(k)])

StatsOver(x, m, v, stat) == SeqOf([j \in DOMAIN m |-> Stat(x, m[j], v, stat)])

\* sum_sq_diff_i + count_i * (sum_i / count_i - S / N)^2 over the rows m.
MergedSsd(x, m, v, S, N) ==
    SumSeq(SeqOf([j \in DOMAIN m |->
             Add(Stat(x, m[j], v, "sum_sq_diff"),
                 Mul(Stat(x, m[j], v, "count"),
                     Sq(Sub(Div(Stat(x, m[j], v, "sum"), Stat(x, m[j], v, "count")),
                            Div(S, N)))))]))

PlainSsd(x, m, v) == SumSeq(StatsOver(x, m, v, "sum_sq_diff"))

MergedRowOk(x, m, out, o, v) ==
    /\ m # <<>>
    /\ Stat(out, o, v, "count") = SumSeq(StatsOver(x, m, v, "count"))
    /\ Stat(out, o, v, "sum") = SumSeq(StatsOver(x, m, v, "sum"))
    /\ Stat(out, o, v, "min") = MinSeq(StatsOver(x, m, v, "min"))
    /\ Stat(out, o, v, "max") = MaxSeq(StatsOver(x, m, v, "max"))
    /\ Stat(out, o, v, "sum_sq_diff")
         = MergedSsd(x, m, v, Stat(out, o, v, "sum"), Stat(out, o, v, "count"))

\* out is x coarsened to r.
MergedFrom(x, out, r) ==
    /\ {RowKey(out, o) : o \in DOMAIN out.rows}
         = {SubSeq(RowKey(x, i), 1, Len(GroupingCols))
              \o <<Floor(Cell(x, i, TimeCol), r)>> : i \in DOMAIN x.rows}
    /\ \A o, q \in DOMAIN out.rows : RowKey(out, o) = RowKey(out, q) => o = q
    /\ \A o \in DOMAIN out.rows, v \in DOMAIN Variables :
           MergedRowOk(x, MergedRows(x, RowKey(out, o), r), out, o, Variables[v])

C2_CoarsenMerges ==
    [][(call'.fn = "coarsen_agg" /\ call'.arg = "lossless" /\ call'.err = ""
        /\ CountsPositive(Lossless))
       => MergedFrom(Lossless, df_coarse', res'.last)]_vars

\* coarsen_agg has merged two or more rows of the init_agg table into one
\* whose sum_sq_diff is not the plain sum of theirs.
C2_Witness ==
    /\ call.fn = "coarsen_agg" /\ call.err = ""
    /\ ~res.chained /\ ~res.stacked
    /\ CountsPositive(df_agg)
    /\ \E o \in DOMAIN df_coarse.rows :
         LET m == MergedRows(df_agg, RowKey(df_coarse, o), res.last)
         IN  /\ Len(m) >= 2
             /\ Stat(df_coarse, o, X, "sum_sq_diff") # PlainSsd(df_agg, m, X)
             /\ Stat(df_coarse, o, X, "sum_sq_diff")
                  = MergedSsd(df_agg, m, X, Stat(df_coarse, o, X, "sum"),
                              Stat(df_coarse, o, X, "count"))

(***************************************************************************)
(* C5: the final table of finalize_agg(init_agg(raw, r)) has one row per   *)
(* (key, bucket) of the raw rows at r, and in it, per variable, mean is    *)
(* the mean of the bucket's raw values, std their sample standard          *)
(* deviation (divisor n - 1) where the bucket has two or more, min and max *)
(* their extremes; min and max are those of the lossless table, unchanged. *)
(* The same holds after coarsening by multiples.                           *)
(***************************************************************************)
\* The square of a standard deviation cell.
StdSquared(a) == IF a.e = 2 THEN [n |-> a.n, d |-> a.d, e |-> 1] ELSE Sq(a)

\* Sample variance of the raw values of group k: ssd / (n - 1).
RawVariance(k, r, v) ==
    Norm(RawSqDev(Present(k, r, v), v, RawCount(k, r, v), RawSum(Present(k, r, v), v)),
         RawCount(k, r, v) * RawCount(k, r, v) * (RawCount(k, r, v) - 1))

FinalRowOk(i, k, r, v) ==
    /\ Stat(df_final, i, v, "mean") = RawMean(k, r, v)
    /\ Stat(df_final, i, v, "min") = RawMin(k, r, v)
    /\ Stat(df_final, i, v, "max") = RawMax(k, r, v)
    /\ Stat(df_final, i, v, "min") = Stat(Lossless, i, v, "min")
    /\ Stat(df_final, i, v, "max") = Stat(Lossless, i, v, "max")
    /\ RawCount(k, r, v) >= 2 =>
         /\ ~IsNaN(Stat(df_final, i, v, "std"))
         /\ ~Less(Stat(df_final, i, v, "std"), ToFloat(0))
         /\ StdSquared(Stat(df_final, i, v, "std")) = RawVariance(k, r, v)

C5_FinalMatchesRaw ==
    (IsTable(df_final) /\ ~res.stacked /\ res.multiples) =>
        /\ {RowKey(df_final, i) : i \in DOMAIN df_final.rows} = RawKeys(res.last)
        /\ Len(df_final.rows) = Cardinality(RawKeys(res.last))
        /\ \A i \in DOMAIN df_final.rows, v \in DOMAIN Variables :
               FinalRowOk(i, RowKey(df_final, i), res.last, Variables[v])

\* finalize_agg right after init_agg, on a bucket of three samples that
\* differ.
C5_Witness ==
    /\ IsTable(df_final) /\ ~IsTable(df_coarse) /\ ~res.stacked
    /\ call.fn = "finalize_agg"
    /\ HasSpreadRow(df_agg, 3)
    /\ \E i \in DOMAIN df_final.rows : Less(ToFloat(0), Stat(df_final, i, X, "std"))

(***************************************************************************)
(* C7: for a group with exactly one raw sample of value v, init_agg yields *)
(* sum_sq_diff equal to 0 and not NaN; finalize_agg on that row raises     *)
(* nothing and yields a NaN std, never zero, with mean = min = max = v.    *)
(***************************************************************************)
Zero == ToFloat(0)

SingleInitOk(i, v) ==
    RawCount(RowKey(df_agg, i), res.first, v) = 1 =>
        /\ Stat(df_agg, i, v, "count") = ToFloat(1)
        /\ Stat(df_agg, i, v, "sum_sq_diff") = Zero
        /\ ~IsNaN(Stat(df_agg, i, v, "sum_sq_diff"))

SingleFinalOk(i, k, v) ==
    RawCount(k, res.last, v) = 1 =>
        /\ IsNaN(Stat(df_final, i, v, "std"))
        /\ Stat(df_final, i, v, "std") # Zero
        /\ Stat(df_final, i, v, "mean") = RawMin(k, res.last, v)
        /\ Stat(df_final, i, v, "min") = RawMin(k, res.last, v)
        /\ Stat(df_final, i, v, "max") = RawMin(k, res.last, v)

C7_SingleSample ==
    /\ (IsTable(df_agg) /\ ~res.stacked) =>
          \A i \in DOMAIN df_agg.rows, v \in DOMAIN Variables :
              SingleInitOk(i, Variables[v])
    /\ (call.fn = "finalize_agg" /\ call.arg = "lossless"
          /\ call.time_col = TimeCol /\ call.grouping_cols = GroupingCols) =>
          /\ call.err = ""
          /\ IsTable(df_final)
    /\ (IsTable(df_final) /\ ~res.stacked) =>
          \A i \in DOMAIN df_final.rows, v \in DOMAIN Variables :
              SingleFinalOk(i, RowKey(df_final, i), Variables[v])

\* finalize_agg right after init_agg, on a table with a one-sample row.
C7_Witness ==
    /\ call.fn = "finalize_agg" /\ call.err = ""
    /\ ~IsTable(df_coarse) /\ ~res.stacked
    /\ \E i \in DOMAIN df_final.rows :
         /\ RawCount(RowKey(df_final, i), res.last, X) = 1
         /\ Stat(df_agg, i, X, "sum_sq_diff") = Zero
         /\ IsNaN(Stat(df_final, i, X, "std"))

(***************************************************************************)
(* C10: the final table has as many rows as the lossless table it was made *)
(* from, in the same order; its columns are the grouping columns, the time *)
(* column and then, variable by variable, mean, std, min, max (not grouped *)
(* by statistic); it has no count, sum or sum_sq_diff column.              *)
(***************************************************************************)
FinalColumnOrder ==
    << <<"hostname">>, <<"timestamp">>,
       <<"x", ".", "mean">>, <<"x", ".", "std">>, <<"x", ".", "min">>, <<"x", ".", "max">>,
       <<"y", ".", "mean">>, <<"y", ".", "std">>, <<"y", ".", "min">>, <<"y", ".", "max">> >>

C10_FinalColumns ==
    IsTable(df_final) =>
        /\ df_final.columns = FinalColumnOrder
        /\ Len(df_final.rows) = Len(Lossless.rows)
        /\ \A i \in DOMAIN df_final.rows :
               /\ RowKey(df_final, i) = RowKey(Lossless, i)
               /\ Len(df_final.rows[i].val) = Len(FinalColumnOrder)
        /\ \A c \in DOMAIN df_final.columns :
               df_final.columns[c][Len(df_final.columns[c])]
                   \notin {"count", "sum", "sum_sq_diff"}

\* finalize_agg has made a final table of three rows.
C10_Witness ==
    /\ call.fn = "finalize_agg" /\ call.err = ""
    /\ Len(df_final.rows) = 3
    /\ Len(df_final.columns) = 10

(***************************************************************************)
(* C4: for a partition of the raw rows into A and B, init_agg applied to A *)
(* and to B, the two lossless tables stacked (a (key, bucket) may appear   *)
(* twice) and coarsen_agg applied to the stack gives, under every          *)
(* (key, bucket), the same count, sum, sum_sq_diff, min and max as         *)
(* init_agg applied to all the raw rows at that resolution.                *)
(***************************************************************************)
C4_PartsMatchWhole ==
    (IsTable(df_coarse) /\ res.stacked /\ res.multiples) =>
        SameRows(df_coarse, init_agg(df_raw, res.last, GroupingCols))

\* A (key, bucket) appears twice in the stack, once with two samples, and
\* one coarsen_agg has merged the stack into a single bucket per key, one
\* of three samples that differ.
C4_Witness ==
    /\ IsTable(df_coarse) /\ res.stacked /\ ~res.chained
    /\ \E i, j \in DOMAIN df_agg.rows :
         /\ i < j
         /\ RowKey(df_agg, i) = RowKey(df_agg, j)
         /\ Stat(df_agg, i, X, "count") = ToFloat(2)
    /\ \A o, q \in DOMAIN df_coarse.rows :
         RowKey(df_coarse, o)[1] = RowKey(df_coarse, q)[1] => o = q
    /\ HasSpreadRow(df_coarse, 3)

(***************************************************************************)
(* C8: coarsen_agg and finalize_agg use a table that has the time column   *)
(* and the grouping columns among its columns as it is; if one of them is  *)
(* missing from the columns the index levels are promoted to columns and   *)
(* the result is that for the column form of the table; if one of them is  *)
(* still absent then, the call raises and gives no output table.           *)
(***************************************************************************)
\* Every name is a column of df or a level of its index.
Reachable(df, names) ==
    \A j \in DOMAIN names : Contains(df.columns \o df.index, names[j])

\* The call c read x (in either form) and left coarse and final.
ShapeHandled(x, c, keys, coarse, final, r) ==
    IF Reachable(x, keys)
    THEN /\ c.err = ""
         /\ HasCols(Stored(x), keys) /\ Promoted(Stored(x), keys) = Stored(x)
         /\ ~HasCols(x, keys) => Promoted(x, keys) = Stored(x)
         /\ c.fn = "coarsen_agg" =>
              /\ IsTable(coarse)
              /\ coarse = coarsen_agg(Stored(x), r, c.time_col, c.grouping_cols)
              /\ coarse = coarsen_agg(x, r, c.time_col, c.grouping_cols)
         /\ c.fn = "finalize_agg" =>
              /\ IsTable(final)
              /\ final = finalize_agg(Stored(x), c.time_col, c.grouping_cols)
              /\ final = finalize_agg(x, c.time_col, c.grouping_cols)
    ELSE /\ c.err = "KeyError"
         /\ \A t \in Resolutions :
              /\ ~IsTable(coarsen_agg(x, t, c.time_col, c.grouping_cols))
              /\ ~IsTable(coarsen_agg(Stored(x), t, c.time_col, c.grouping_cols))
         /\ ~IsTable(finalize_agg(x, c.time_col, c.grouping_cols))
         /\ ~IsTable(finalize_agg(Stored(x), c.time_col, c.grouping_cols))
         /\ coarse = df_coarse
         /\ final = df_final

C8_ShapeNormalization ==
    [][call'.arg = "lossless" =>
         ShapeHandled(Lossless, call', call'.grouping_cols \o <<call'.time_col>>,
                      df_coarse', df_final', res'.last)]_vars

\* finalize_agg was handed a lossless table whose time and grouping columns
\* are index levels, in memory or stored with them as columns, and made
\* the final table.
C8_Witness ==
    /\ call.fn = "finalize_agg" /\ call.arg = "lossless" /\ call.err = ""
    /\ Len(Lossless.rows) >= 2
    /\ ~HasCols(Lossless, Keys) /\ HasCols(Stored(Lossless), Keys)
    /\ df_final = finalize_agg(Lossless, TimeCol, GroupingCols)
    /\ df_final = finalize_agg(Stored(Lossless), TimeCol, GroupingCols)

\* coarsen_agg was told a time or grouping column no form of the table has
\* and raised.
ShapeErrorSurfaced ==
    /\ call.fn = "coarsen_agg" /\ call.arg = "lossless"
    /\ ~Reachable(Lossless, call.grouping_cols \o <<call.time_col>>)
    /\ call.err = "KeyError"

(***************************************************************************)
(* C9: once finalize_agg has made a final table (mean, std, min, max per   *)
(* variable), no stage takes it: coarsen_agg and finalize_agg handed the   *)
(* final table raise and give no table, so the tables follow the order     *)
(* raw, lossless, lossless any number of times, final.                     *)
(***************************************************************************)
StatNames(df) == {df.columns[c][Len(df.columns[c])] : c \in DOMAIN df.columns}

IsLosslessShape(df) ==
    /\ Range(LosslessStats) \subseteq StatNames(df)
    /\ StatNames(df) \cap {"mean", "std"} = {}

IsFinalShape(df) ==
    /\ Range(FinalStats) \subseteq StatNames(df)
    /\ StatNames(df) \cap {"count", "sum", "sum_sq_diff"} = {}

C9_FinalIsTerminal ==
    /\ call.arg = "final" => call.err # ""
    /\ IsTable(df_agg) => IsLosslessShape(df_agg)
    /\ IsTable(df_coarse) => IsTable(df_agg) /\ IsLosslessShape(df_coarse)
    /\ IsTable(df_final) =>
         /\ IsTable(df_agg)
         /\ IsFinalShape(df_final)
         /\ ~IsTable(finalize_agg(df_final, TimeCol, GroupingCols))
         /\ \A t \in Resolutions :
                ~IsTable(coarsen_agg(df_final, t, TimeCol, GroupingCols))

\* coarsen_agg was handed a final table of two rows and raised.
C9_Witness ==
    /\ call.fn = "coarsen_agg" /\ call.arg = "final"
    /\ call.err = "KeyError"
    /\ Len(df_final.rows) = 2
    /\ IsFinalShape(df_final)

(***************************************************************************)
(* The column-naming utilities on their own: get_cols makes the columns of *)
(* a table from variable names and statistic names, and                    *)
(* get_vars_from_flat_cols reads the variable names back.                  *)
(***************************************************************************)
\* Variable names, some with '.' in them: 'x', 'a', 'a.b', 'x.count'.
VarNames == <<Str("x"), Str("a"), <<"a", ".", "b">>, <<"x", ".", "count">> >>

\* Lists of distinct variable naming.
VarLists ==
    {SeqOf([i \in DOMAIN q |-> VarNames[q[i]]]) :
       q \in {f \in UNION {[1..n -> DOMAIN VarNames] : n \in 0..MaxVars} :
                \A i, j \in DOMAIN f : f[i] = f[j] => i = j}}

\* The statistic names the stages pass to get_cols, in their orders:
\* init_agg's, coarsen_agg's, finalize_agg's, one alone and cols('').
AggTypeLists ==
    {<<Str("count"), Str("sum"), Str("sum_sq_diff"), Str("max"), Str("min")>>,
     <<Str("count"), Str("sum"), Str("sum_sq_diff"), Str("min"), Str("max")>>,
     <<Str("mean"), Str("std"), Str("min"), Str("max")>>,
     <<Str("count")>>,
     << <<>> >>}

NotVarsLists == {<<>>, <<TimeCol>>, GroupingCols \o <<TimeCol>>}

\* The statistic columns laid out variable by variable (as init_agg does)
\* or statistic by statistic (as the concatenation of finalize_agg does).
StatColumns(variables, agg_types, by_variable) ==
    IF by_variable
    THEN ChainZip(SeqOf([s \in DOMAIN agg_types |-> get_cols(variables, agg_types[s])]))
    ELSE Flatten(SeqOf([s \in DOMAIN agg_types |-> get_cols(variables, agg_types[s])]))

InitNames ==
    /\ df_raw = NoTable /\ df_agg = NoTable
    /\ df_coarse = NoTable /\ df_final = NoTable
    /\ call = NoCall /\ res = NoRes
    /\ \E v \in VarLists, a \in AggTypeLists, n \in NotVarsLists, b \in BOOLEAN :
         naming = [NoNames EXCEPT !.variables = v, !.agg_types = a,
                                 !.not_vars = n, !.by_variable = b]

\* The columns of the table: not_vars, then the get_cols outputs.
GetCols ==
    /\ naming.step = "none"
    /\ naming' = [naming EXCEPT
                   !.step = "get_cols",
                   !.columns = naming.not_vars
                       \o StatColumns(naming.variables, naming.agg_types,
                                      naming.by_variable)]
    /\ UNCHANGED <<df_raw, df_agg, df_coarse, df_final, call, res>>

\* get_vars_from_flat_cols(df, not_vars=...) on a table of these columns.
GetVarsFromFlatCols ==
    /\ naming.step = "get_cols"
    /\ naming' = [naming EXCEPT
                   !.step = "get_vars_from_flat_cols",
                   !.out = get_vars_from_flat_cols(
                               Table(<<NoneName>>, naming.columns, <<>>),
                               naming.not_vars)]
    /\ UNCHANGED <<df_raw, df_agg, df_coarse, df_final, call, res>>

NextNames == GetCols \/ GetVarsFromFlatCols

SpecNames == InitNames /\ [][NextNames]_vars

(***************************************************************************)
(* C11: for every list of distinct variable names (names with '.' in them  *)
(* included) and every statistic name, get_vars_from_flat_cols applied to  *)
(* a table whose columns are the get_cols outputs for the variables plus   *)
(* the columns listed in not_vars returns exactly the variables, each once *)
(* and in the original order, with no entry for a not_vars column.         *)
(***************************************************************************)
C11_NamingRoundTrip ==
    naming.step = "get_vars_from_flat_cols" =>
        /\ naming.out = naming.variables
        /\ \A i, j \in DOMAIN naming.out : naming.out[i] = naming.out[j] => i = j
        /\ \A i \in DOMAIN naming.out : ~Contains(naming.not_vars, naming.out[i])

\* Two variables, the first with a '.' in its name and the second a part
\* of it, several statistics and two not_vars columns.
C11_Witness ==
    /\ naming.step = "get_vars_from_flat_cols"
    /\ naming.variables = << <<"a", ".", "b">>, Str("a") >>
    /\ Len(naming.agg_types) = 5
    /\ Len(naming.not_vars) = 2
    /\ Len(naming.columns) = 12
    /\ naming.out = naming.variables

(***************************************************************************)
(* One lossless table handed to several calls.                             *)
(***************************************************************************)
\* df_agg = init_agg(df_raw, ...), kept in memory or stored and read back.
InitAggKeep(time_res, from_disk) ==
    /\ call.err = ""
    /\ ~IsTable(df_agg)
    /\ \E out \in {init_agg(df_raw, time_res, GroupingCols)} :
           /\ df_agg' = Input(out, from_disk)
           /\ call' = Call("init_agg", "raw", TimeCol, GroupingCols, out)
    /\ df_raw' = init_agg_caller(df_raw, time_res, GroupingCols)
    /\ res' = [NoRes EXCEPT !.first = time_res, !.prev = time_res, !.last = time_res]
    /\ UNCHANGED <<df_coarse, df_final, naming>>

\* df_coarse = coarsen_agg(df_agg, ...): the same df_agg, call after call.
CoarsenSame(time_res) ==
    /\ call.err = ""
    /\ IsTable(df_agg)
    /\ \E out \in {coarsen_agg(df_agg, time_res, TimeCol, GroupingCols)} :
           /\ df_coarse' = out
           /\ call' = Call("coarsen_agg", "lossless", TimeCol, GroupingCols, out)
    /\ df_agg' = coarsen_agg_caller(df_agg, time_res, TimeCol, GroupingCols)
    /\ res' = [res EXCEPT !.last = time_res]
    /\ UNCHANGED <<df_raw, df_final, naming>>

\* df_final = finalize_agg(df_agg, ...) on the same df_agg.
FinalizeSame ==
    /\ call.err = ""
    /\ IsTable(df_agg)
    /\ \E out \in {finalize_agg(df_agg, TimeCol, GroupingCols)} :
           /\ df_final' = out
           /\ call' = Call("finalize_agg", "lossless", TimeCol, GroupingCols, out)
    /\ df_agg' = finalize_agg_caller(df_agg, TimeCol, GroupingCols)
    /\ UNCHANGED <<df_raw, df_coarse, res, naming>>

\* One lossless table handed to coarsen_agg and finalize_agg calls in any
\* order.
NextReuse ==
    \/ \E time_res \in Resolutions, from_disk \in BOOLEAN :
         InitAggKeep(time_res, from_disk)
    \/ \E time_res \in {r \in Resolutions : r >= res.first} : CoarsenSame(time_res)
    \/ FinalizeSame

SpecReuse == InitShape /\ [][NextReuse]_vars

(***************************************************************************)
(* C12: no stage changes its input: after a call of init_agg, coarsen_agg  *)
(* or finalize_agg the table the caller passed has the columns, index,     *)
(* rows and values it had before, so one lossless table can be handed to   *)
(* several coarsen_agg and finalize_agg calls in any order, and each       *)
(* result is that of the call made alone.                                  *)
(***************************************************************************)
\* The lossless table as init_agg makes it from raw, in the form of agg.
FirstLossless(raw, agg, r) ==
    Input(init_agg(raw, r.first, GroupingCols), HasCols(agg, Keys))

\* The result of the call just made is that of the call made alone on the
\* table init_agg returned.
LoneCall(first, c, coarse, final, r) ==
    /\ c.fn = "coarsen_agg" => coarse = coarsen_agg(first, r.last, TimeCol, GroupingCols)
    /\ c.fn = "finalize_agg" => final = finalize_agg(first, TimeCol, GroupingCols)

C12_NoInputMutation ==
    [][/\ df_raw' = df_raw
       /\ IsTable(df_agg) => df_agg' = df_agg
       /\ IsTable(df_agg') =>
            \E first \in {FirstLossless(df_raw, df_agg', res')} :
                /\ df_agg' = first
                /\ LoneCall(first, call', df_coarse', df_final', res')]_vars

\* A lossless table held with its keys as columns (coarsen_agg copies it)
\* was finalized and coarsened more than once, the last time to buckets
\* that merge rows, and is what it was.
C12_Witness ==
    /\ call.fn = "coarsen_agg" /\ call.err = ""
    /\ IsTable(df_final)
    /\ HasCols(df_agg, Keys)
    /\ res.first < res.last
    /\ Len(df_coarse.rows) < Len(df_agg.rows)
    /\ df_agg = Stored(init_agg(df_raw, res.first, GroupingCols))
    /\ df_agg # coarsen_agg_written(df_agg, res.last, TimeCol, GroupingCols)

\* ---------------------------------------------------------------------
\* C13: zero-count groups cannot occur: every lossless row made by
\* init_agg, and every row a chain of coarsen_agg calls makes of it, has
\* count >= 1 for every variable, so that sum / count and
\* coarse_sum / coarse_count never divide by zero.
\* groupby(...).agg('count') counts the readings of a variable, not the
\* rows of the group: a group whose rows all lack a reading of y has
\* y.count = 0, and coarsen_agg and finalize_agg then evaluate 0 / 0.
C13_NoZeroCount ==
    /\ IsTable(df_agg) => CountsPositive(df_agg)
    /\ IsTable(df_coarse) => CountsPositive(df_coarse)

\* What finalize_agg makes of a zero-count variable: sum / count is
\* 0 / 0 = NaN while (sum_sq_diff / (count - 1))**.5 is (0 / -1)**.5 = 0.
ZeroCountFinal ==
    \E i \in DOMAIN Lossless.rows, v \in DOMAIN Variables :
        /\ Stat(Lossless, i, Variables[v], "count") = Zero
        /\ Stat(df_final, i, Variables[v], "mean") = NaN
        /\ Stat(df_final, i, Variables[v], "std") = Zero

\* C13, the division: no final row carries a standard deviation of zero
\* next to an undefined mean.
C13_NoZeroDivision == IsTable(df_final) => ~ZeroCountFinal

(***************************************************************************)
(* C14: lossless tables reached by coarsen_agg calls at any resolutions.   *)
(***************************************************************************)
\* Resolutions that are no multiples of one another ('10s' next to '15s').
AnyResolutions == {5, 10, 15}

\* init_agg at any resolution, then coarsen_agg again and again at any
\* resolution, coarser or finer, a multiple of the last one or not.  The
\* table of init_agg is read back from disk, a coarsened one is in memory.
NextAny ==
    \/ \E time_res \in AnyResolutions : InitAgg(time_res)
    \/ \E time_res \in AnyResolutions :
         CoarsenAgg(~IsTable(df_coarse), time_res, TimeCol, GroupingCols)

SpecAny == Init /\ [][NextAny]_vars

\* a <= b as floats compare: false if either is NaN.
Leq(a, b) == Less(a, b) \/ (a = b /\ ~IsNaN(a))

GroupKey(df, i) == SubSeq(RowKey(df, i), 1, Len(GroupingCols))

RawGroupKey(i) == SeqOf([j \in DOMAIN GroupingCols |-> RawCell(i, GroupingCols[j])])

\* The rows of df under grouping key g, in table order.
RowsOfKey(df, g) ==
    SelectSeq(SeqOf([i \in DOMAIN df.rows |-> i]), LAMBDA i : GroupKey(df, i) = g)

\* The total of a statistic of v over the rows of df under grouping key g.
TotalOfKey(df, g, v, stat) ==
    LET m == RowsOfKey(df, g)
    IN  SumSeq(SeqOf([j \in DOMAIN m |-> Stat(df, m[j], v, stat)]))

\* The raw rows under grouping key g, and those with a reading of v.
RawRowsOfKey(g) == {i \in DOMAIN df_raw.rows : RawGroupKey(i) = g}

RawReadingsOfKey(g, v) == {i \in RawRowsOfKey(g) : RawCell(i, v) # Missing}

\* Every bucket start is a multiple of the last resolution applied and no
\* two rows share their (grouping key, bucket start).
BucketsOk(df) ==
    /\ \A i \in DOMAIN df.rows : Cell(df, i, TimeCol) % res.last = 0
    /\ \A i, j \in DOMAIN df.rows : RowKey(df, i) = RowKey(df, j) => i = j

\* min <= max and count * min <= sum <= count * max in row i for v.
Ordered(df, i, v) ==
    /\ Leq(Stat(df, i, v, "min"), Stat(df, i, v, "max"))
    /\ Leq(Mul(Stat(df, i, v, "count"), Stat(df, i, v, "min")), Stat(df, i, v, "sum"))
    /\ Leq(Stat(df, i, v, "sum"), Mul(Stat(df, i, v, "count"), Stat(df, i, v, "max")))

\* A variable without a reading in the row: nothing summed, no extrema.
Unread(df, i, v) ==
    /\ Stat(df, i, v, "count") = Zero
    /\ Stat(df, i, v, "sum") = Zero
    /\ IsNaN(Stat(df, i, v, "min"))
    /\ IsNaN(Stat(df, i, v, "max"))

\* Grouping keys are never merged: the table has the grouping keys of the
\* raw rows, and under each of them the sum of the raw readings of that key.
KeysApart(df) ==
    /\ {GroupKey(df, i) : i \in DOMAIN df.rows}
         = {RawGroupKey(i) : i \in DOMAIN df_raw.rows}
    /\ \A i \in DOMAIN df.rows, v \in DOMAIN Variables :
         TotalOfKey(df, GroupKey(df, i), Variables[v], "sum")
           = ToFloat(RawSum(RawReadingsOfKey(GroupKey(df, i), Variables[v]),
                            Variables[v]))

=============================================================================
